---- MODULE Spec2Model ----
(***************************************************************************)
(* A model of the S3 file-management endpoints of polls/s3_views.py and    *)
(* the storage adapter of polls/s3_utils.py.                               *)
(*                                                                         *)
(* The bucket is the only state that outlives a request.  Every handler    *)
(* makes at most one provider call, so a handler is one atomic step, with  *)
(* one exception: an upload draws its key (uuid4) before the provider call *)
(* and is therefore modelled in two steps, so that several uploads can be  *)
(* in flight between key generation and storage.                           *)
(*                                                                         *)
(* Strings whose characters matter (file names, keys, prefixes, the raw    *)
(* max_keys parameter) are sequences of one-character strings.  Optional   *)
(* values are sequences of length 0 or 1.                                  *)
(***************************************************************************)
EXTENDS Integers, Sequences, FiniteSets, TLC

\* ------------------------------------------------------------------ bounds

\* Uploads that get as far as drawing a key.
MaxUploads == 2

\* --------------------------------------------------------------- constants

\* Length of uuid.uuid4().hex.
TokenLen == 32
\* Default of the max_keys query parameter.
DefaultMaxKeys == 100
\* Most keys S3 returns in one list_objects_v2 response, whatever MaxKeys asks.
ListPageCap == 1000

Sep == "_"
None == <<>>
Some(x) == <<x>>

Min(a, b) == IF a <= b THEN a ELSE b

\* ----------------------------------------------------------------- strings

HexDigits == <<"0", "1", "2", "3", "4", "5", "6", "7",
               "8", "9", "a", "b", "c", "d", "e", "f">>

\* The characters of the model, in code-point order (the order S3 lists keys in).
CharOrder == <<"0", "1", "2", "3", "4", "5", "6", "7", "8", "9",
               "_", "a", "b", "c", "d", "e", "f", "x", "z">>

RECURSIVE ToHex(_, _)
\* n as w lower-case hex digits, zero padded (format(n, "032x") for w = 32).
ToHex(n, w) == IF w = 0 THEN <<>>
               ELSE Append(ToHex(n \div 16, w - 1), HexDigits[(n % 16) + 1])

IsPrefix(p, s) == /\ Len(p) <= Len(s)
                  /\ \A i \in 1..Len(p) : s[i] = p[i]

\* Index of the first occurrence of c in s, 0 when there is none.
Find(s, c) == IF \E i \in 1..Len(s) : s[i] = c
              THEN CHOOSE i \in 1..Len(s) : s[i] = c /\ \A j \in 1..(i - 1) : s[j] # c
              ELSE 0

Digits == <<"0", "1", "2", "3", "4", "5", "6", "7", "8", "9">>
IsDigit(c) == \E d \in 1..10 : Digits[d] = c
DigitValue(c) == (CHOOSE d \in 1..10 : Digits[d] = c) - 1

RECURSIVE DecimalValue(_)
DecimalValue(s) == IF s = <<>> THEN 0
                   ELSE 10 * DecimalValue(SubSeq(s, 1, Len(s) - 1)) + DigitValue(s[Len(s)])

\* Python int(s) on a string: an optional sign and at least one digit; anything
\* else raises ValueError (None here).
ParseInt(s) ==
    LET signed == Len(s) > 0 /\ s[1] \in {"-", "+"}
        digits == IF signed THEN Tail(s) ELSE s
    IN  IF Len(digits) > 0 /\ \A i \in 1..Len(digits) : IsDigit(digits[i])
        THEN Some(IF signed /\ s[1] = "-" THEN 0 - DecimalValue(digits)
                  ELSE DecimalValue(digits))
        ELSE None

\* ------------------------------------------------------------------- state

VARIABLES
    bucketName,  \* settings.AWS_STORAGE_BUCKET_NAME
    bucket,      \* the bucket: key -> [content, ctype]
    issued,      \* the tokens uuid4 has returned so far
    inflight,    \* uploads that have their key and have not called the provider
    live,        \* history: key -> what a successful upload returned it for,
                 \*          until the provider applies a delete of the key
    returned,    \* history: the keys successful uploads have returned
    req,         \* history: the request of the last step
    resp         \* the response of the last step

vars == <<bucketName, bucket, issued, inflight, live, returned, req, resp>>

\* ---------------------------------------------------------------- settings

\* settings.AWS_S3_REGION_NAME.
AWS_S3_REGION_NAME == "us-east-1"
\* The values settings.AWS_STORAGE_BUCKET_NAME can have: unset or a bucket name.
BucketNames == {"", "bkt"}

\* ------------------------------------------------------------------ inputs

\* The uploaded files, as Django hands them over: a file name (not empty, no
\* path separator), the bytes, and the content type of the part ("" when the
\* part carries none).  One name is plain, the other contains the separator.
UploadedFiles ==
    {[filename |-> <<"a">>, content |-> <<104, 105>>, content_type |-> "text/plain"],
     [filename |-> <<"a", Sep, "b">>, content |-> <<>>, content_type |-> ""]}
FileNames == {f.filename : f \in UploadedFiles}

\* What can become of one provider call:
\*   no_client      get_s3_client() raised, nothing was sent
\*   ok             the provider answered
\*   client_error   the provider refused (botocore ClientError), nothing applied
\*   lost_response  the provider applied the call, the answer never arrived
\*                  and the call raised (an exception that is no ClientError)
Outcomes == {"no_client", "ok", "client_error", "lost_response"}
Applied(outcome) == outcome \in {"ok", "lost_response"}
ProviderCalls(outcome) == IF outcome = "no_client" THEN 0 ELSE 1

\* ---------------------------------------------------------- provider (S3)

\* uuid.uuid4().hex: 32 hex digits.
uuid4_hex(n) == ToHex(n, TokenLen)
TokenPool == {uuid4_hex(n) : n \in 0..(MaxUploads - 1)}

\* s3_client.upload_fileobj(file_obj, bucket, key, ExtraArgs): stores the object,
\* replacing whatever the key held.  Without a ContentType S3 records its default.
upload_fileobj(b, key, content, extra_args) ==
    [k \in (DOMAIN b) \cup {key} |->
        IF k = key
        THEN [content |-> content,
              ctype   |-> IF extra_args = None THEN "binary/octet-stream"
                          ELSE extra_args[1]]
        ELSE b[k]]

\* s3_client.get_object(Bucket, Key): the object, or the NoSuchKey error.
get_object(b, key) ==
    IF key \in DOMAIN b
    THEN [found |-> TRUE, Body |-> b[key].content, ContentType |-> Some(b[key].ctype)]
    ELSE [found |-> FALSE, Body |-> <<>>, ContentType |-> None]

\* s3_client.delete_object(Bucket, Key): removes the key; no error when absent.
delete_object(b, key) == [k \in (DOMAIN b) \ {key} |-> b[k]]

RECURSIVE SortFrom(_, _)
RECURSIVE ConcatBuckets(_, _, _)
\* The keys of S, which agree on their first d - 1 characters, in code-point order.
SortFrom(S, d) ==
    IF S = {} THEN <<>>
    ELSE IF Cardinality(S) = 1 THEN <<CHOOSE k \in S : TRUE>>
    ELSE LET ended == {k \in S : Len(k) < d}
         IN  (IF ended = {} THEN <<>> ELSE <<CHOOSE k \in ended : TRUE>>)
             \o ConcatBuckets(S \ ended, d, 1)
ConcatBuckets(S, d, i) ==
    IF i > Len(CharOrder) \/ S = {} THEN <<>>
    ELSE LET here == {k \in S : k[d] = CharOrder[i]}
         IN  SortFrom(here, d + 1) \o ConcatBuckets(S \ here, d, i + 1)

\* s3_client.list_objects_v2(Bucket, Prefix, MaxKeys): the first keys with the
\* prefix in key order, at most MaxKeys and never more than one page of them.
\* A negative MaxKeys is refused (InvalidArgument).
list_objects_v2(b, prefix, max_keys) ==
    IF max_keys < 0 THEN [refused |-> TRUE, Contents |-> <<>>]
    ELSE LET matching == {k \in DOMAIN b : IsPrefix(prefix, k)}
             sorted   == SortFrom(matching, 1)
             n        == Min(Min(max_keys, ListPageCap), Len(sorted))
         IN  [refused  |-> FALSE,
              Contents |-> [i \in 1..n |->
                              [Key |-> sorted[i], Size |-> Len(b[sorted[i]].content)]]]

\* --------------------------------------------- storage adapter (s3_utils.py)

\* The dict an adapter function returns; a key the dict lacks is None.
Result == [success |-> FALSE, error |-> None, file_key |-> None, url |-> None,
           original_filename |-> None, file_content |-> None,
           content_type |-> None, files |-> <<>>, count |-> None]
Failed(msg) == [Result EXCEPT !.error = Some(msg)]

\* Mutant: every key carries the same token.
unique_filename_fixed(token, filename) == uuid4_hex(0) \o <<Sep>> \o filename

\* Mutant: the key is the file name alone.
unique_filename_bare(token, filename) == filename

\* f"{uuid.uuid4().hex}_{filename}"
unique_filename(token, filename) == token \o <<Sep>> \o filename

\* Mutant: the content type is never passed on.
ExtraArgs_dropped(content_type) == None

\* extra_args of upload_file_to_s3: the content type, when there is one.
ExtraArgs(content_type) == IF content_type # "" THEN Some(content_type) ELSE None

\* f"https://{bucket}.s3.{region}.amazonaws.com/{key}", as its three parts.
file_url(bucket_name, key) == <<bucket_name, AWS_S3_REGION_NAME, key>>

\* upload_file_to_s3 before it draws the key: the bucket-name check and
\* get_s3_client().  None when it goes on to the upload.
upload_precheck(bucket_name, outcome) ==
    IF bucket_name = "" THEN Some(Failed("S3 bucket name not configured"))
    ELSE IF outcome = "no_client" THEN Some(Failed("Unexpected error uploading file"))
    ELSE None

\* upload_file_to_s3 from the provider call on.
upload_file_to_s3(bucket_name, key, filename, outcome) ==
    IF outcome = "ok"
    THEN [Result EXCEPT !.success = TRUE, !.file_key = Some(key),
                        !.url = Some(file_url(bucket_name, key)),
                        !.original_filename = Some(filename)]
    ELSE IF outcome = "client_error" THEN Failed("AWS ClientError")
    ELSE Failed("Unexpected error uploading file")

download_file_from_s3(bucket_name, b, file_key, outcome) ==
    IF bucket_name = "" THEN Failed("S3 bucket name not configured")
    ELSE IF outcome = "ok"
    THEN LET response == get_object(b, file_key)
         IN  IF response.found
             THEN [Result EXCEPT
                      !.success = TRUE,
                      !.file_content = Some(response.Body),
                      !.content_type =
                          IF response.ContentType # None THEN response.ContentType
                          ELSE Some("application/octet-stream"),
                      !.file_key = Some(file_key)]
             ELSE Failed("File not found")
    ELSE IF outcome = "client_error" THEN Failed("AWS ClientError")
    ELSE Failed("Unexpected error downloading file")

\* Mutant: a key the bucket does not hold is reported as an error.
delete_file_from_s3_checked(bucket_name, file_key, outcome) ==
    IF bucket_name = "" THEN Failed("S3 bucket name not configured")
    ELSE IF outcome = "ok"
    THEN IF file_key \in DOMAIN bucket
         THEN [Result EXCEPT !.success = TRUE, !.file_key = Some(file_key)]
         ELSE Failed("File not found")
    ELSE IF outcome = "client_error" THEN Failed("AWS ClientError")
    ELSE Failed("Unexpected error deleting file")

delete_file_from_s3(bucket_name, file_key, outcome) ==
    IF bucket_name = "" THEN Failed("S3 bucket name not configured")
    ELSE IF outcome = "ok"
    THEN [Result EXCEPT !.success = TRUE, !.file_key = Some(file_key)]
    ELSE IF outcome = "client_error" THEN Failed("AWS ClientError")
    ELSE Failed("Unexpected error deleting file")

list_files_in_s3(bucket_name, b, prefix, max_keys, outcome) ==
    IF bucket_name = "" THEN Failed("S3 bucket name not configured")
    ELSE IF outcome = "ok"
    THEN LET response == list_objects_v2(b, prefix, max_keys)
             files == [i \in 1..Len(response.Contents) |->
                         [key  |-> response.Contents[i].Key,
                          size |-> response.Contents[i].Size]]
         IN  IF response.refused THEN Failed("AWS ClientError")
             ELSE [Result EXCEPT !.success = TRUE, !.files = files,
                                 !.count = Some(Len(files))]
    ELSE IF outcome = "client_error" THEN Failed("AWS ClientError")
    ELSE Failed("Unexpected error listing files")

\* Whether the adapter function gets as far as the provider, and how often it
\* calls it.
provider_calls(bucket_name, outcome) ==
    IF bucket_name = "" THEN 0 ELSE ProviderCalls(outcome)

\* ------------------------------------------------ endpoints (s3_views.py)

\* An HTTP response.  kind is "json" (JsonResponse), "bytes" (HttpResponse with
\* the file) or "error_page" (the framework's answer to an uncaught exception);
\* a JSON field the body lacks is None.
Response == [status |-> 0, kind |-> "none", success |-> None, error |-> None,
             message |-> None, file_key |-> None, url |-> None,
             original_filename |-> None, body |-> None, content_type |-> "",
             disposition |-> None, files |-> <<>>, count |-> None]
JsonResponse(status) ==
    [Response EXCEPT !.status = status, !.kind = "json",
                     !.content_type = "application/json"]
ErrorJson(status, result, default) ==
    [JsonResponse(status) EXCEPT
        !.success = Some(FALSE),
        !.error = IF result.error # None THEN result.error ELSE Some(default)]

\* upload_file without a "file" field.
upload_no_file ==
    [JsonResponse(400) EXCEPT !.success = Some(FALSE),
                              !.error = Some("No file provided")]

\* upload_file from the adapter's result on.
upload_file(result) ==
    IF result.success
    THEN [JsonResponse(201) EXCEPT
             !.success = Some(TRUE),
             !.message = Some("File uploaded successfully"),
             !.file_key = result.file_key,
             !.url = result.url,
             !.original_filename = result.original_filename]
    ELSE ErrorJson(500, result, "Unknown error occurred")

\* Mutant: the key is split at its last separator (rsplit).
download_filename_rsplit(file_key) ==
    IF Find(file_key, Sep) # 0
    THEN LET last == CHOOSE i \in 1..Len(file_key) :
                        /\ file_key[i] = Sep
                        /\ \A j \in (i + 1)..Len(file_key) : file_key[j] # Sep
         IN  SubSeq(file_key, last + 1, Len(file_key))
    ELSE file_key

\* file_key.split('_', 1)[1] if '_' in file_key else file_key
download_filename(file_key) ==
    IF Find(file_key, Sep) # 0
    THEN SubSeq(file_key, Find(file_key, Sep) + 1, Len(file_key))
    ELSE file_key

\* Mutant: the view answers with the file response whatever the result.
download_file_unchecked(file_key, result) ==
    [Response EXCEPT
        !.status = 200, !.kind = "bytes",
        !.body = IF result.success THEN result.file_content ELSE Some(<<>>),
        !.content_type = IF result.success THEN result.content_type[1]
                         ELSE "application/octet-stream",
        !.disposition = Some(file_key)]

download_file(file_key, result) ==
    IF result.success
    THEN [Response EXCEPT
             !.status = 200, !.kind = "bytes",
             !.body = result.file_content,
             !.content_type = result.content_type[1],
             !.disposition = Some(download_filename(file_key))]
    ELSE ErrorJson(404, result, "File not found")

delete_file(result) ==
    IF result.success
    THEN [JsonResponse(200) EXCEPT
             !.success = Some(TRUE),
             !.message = Some("File deleted successfully"),
             !.file_key = result.file_key]
    ELSE ErrorJson(500, result, "Unknown error occurred")

\* Mutant: the prefix parameter is ignored.
list_prefix_ignored(prefix_param) == <<>>

\* request.GET.get('prefix', '')
list_prefix(prefix_param) == IF prefix_param = None THEN <<>> ELSE prefix_param[1]

\* int(request.GET.get('max_keys', 100)); None when int() raises ValueError.
list_max_keys(max_keys_param) ==
    IF max_keys_param = None THEN Some(DefaultMaxKeys) ELSE ParseInt(max_keys_param[1])

\* list_files from the adapter's result on.
list_files(result) ==
    IF result.success
    THEN [JsonResponse(200) EXCEPT
             !.success = Some(TRUE), !.files = result.files, !.count = result.count]
    ELSE ErrorJson(500, result, "Unknown error occurred")

\* The framework's answer when a view raises: status 500, no JSON body.
server_error == [Response EXCEPT !.status = 500, !.kind = "error_page",
                                 !.content_type = "text/html"]

\* The bucket is the provider's: it may hold objects that no upload of these
\* endpoints stored.  Their keys are "x000", "x001", ...
PreloadedKey(i) == <<"x">> \o ToHex(i, 3)
Preloaded(n) == [k \in {PreloadedKey(i) : i \in 0..(n - 1)} |->
                    [content |-> <<104, 105>>, ctype |-> "binary/octet-stream"]]
NoLive == [k \in {} |-> [content |-> <<>>, ctype |-> "", filename |-> <<>>]]

Request == [op |-> "none", fields |-> {}, file_key |-> None, filename |-> None, content |-> None,
            content_type |-> "", prefix |-> None, max_keys |-> None,
            outcome |-> "none", adapter_calls |-> 0, provider_calls |-> 0,
            stored_before |-> FALSE]

\* Keys a request may name: every key an upload can generate (stored, not yet
\* stored, or deleted again) and, for a download, the key of a preloaded object.
UploadKeys == {unique_filename(t, f) : t \in TokenPool, f \in FileNames}
KeyInputs == UploadKeys \cup {PreloadedKey(0)}

Prefixes == {unique_filename(uuid4_hex(0), <<"a">>)}
PrefixParams == {None} \cup {Some(p) : p \in Prefixes}
MaxKeysParams == {None} \cup {Some(s) : s \in {<<"1">>, <<"a">>}}

\* Outcomes of a call that changes nothing at the provider: a lost response is
\* then the same as a call that never arrived.
ReadOutcomes == {"no_client", "ok", "client_error"}
\* Outcomes of a call that changes the bucket.
WriteOutcomes == Outcomes
\* Outcomes of a provider call once the client exists.
CallOutcomes == {"ok", "client_error", "lost_response"}

Init ==
    /\ bucketName \in BucketNames
    /\ bucket = Preloaded(1)
    /\ issued = {}
    /\ inflight = {}
    /\ live = NoLive
    /\ returned = {}
    /\ req = Request
    /\ resp = Response

\* uuid.uuid4(): a token no earlier call returned.
uuid4(used) == TokenPool \ used

\* ----------------------------------------------------------------- actions

\* The names of the multipart file fields a request may carry.
FieldSets == {{}, {"other"}, {"file"}}

\* Mutant: any uploaded file field passes the check.
has_file_field_any(fields) == fields # {}

\* 'file' in request.FILES
has_file_field(fields) == "file" \in fields

\* POST /upload/ without a "file" field.
UploadNoFile(fields) ==
    /\ ~has_file_field(fields)
    /\ req' = [Request EXCEPT !.op = "upload", !.fields = fields]
    /\ resp' = upload_no_file
    /\ UNCHANGED <<bucketName, bucket, issued, inflight, live, returned>>

\* POST /upload/ that fails before a key is drawn: request.FILES['file'] raises,
\* the bucket name is unset, or get_s3_client() raises.
UploadRejected(fields, outcome) ==
    /\ has_file_field(fields)
    /\ "file" \notin fields \/ upload_precheck(bucketName, outcome) # None
    /\ req' = [Request EXCEPT !.op = "upload", !.fields = fields,
                              !.outcome = outcome,
                              !.adapter_calls = IF "file" \in fields THEN 1 ELSE 0]
    /\ resp' = IF "file" \in fields
               THEN upload_file(upload_precheck(bucketName, outcome)[1])
               ELSE server_error
    /\ UNCHANGED <<bucketName, bucket, issued, inflight, live, returned>>

\* POST /upload/ up to the provider call: the key is drawn.
UploadBegin(filename, content, content_type, token) ==
    /\ has_file_field({"file"})
    /\ upload_precheck(bucketName, "ok") = None
    /\ Cardinality(issued) < MaxUploads
    /\ token \in uuid4(issued)
    /\ issued' = issued \cup {token}
    /\ inflight' = inflight \cup
                   {[key |-> unique_filename(token, filename), filename |-> filename,
                     content |-> content, content_type |-> content_type]}
    /\ req' = [Request EXCEPT !.op = "upload_begin", !.fields = {"file"},
                              !.filename = Some(filename),
                              !.content = Some(content),
                              !.content_type = content_type, !.adapter_calls = 1]
    /\ resp' = Response
    /\ UNCHANGED <<bucketName, bucket, live, returned>>

\* POST /upload/ from the provider call on.
UploadFinish(u, outcome) ==
    /\ u \in inflight
    /\ LET result == upload_file_to_s3(bucketName, u.key, u.filename, outcome)
       IN  /\ bucket' = IF Applied(outcome)
                        THEN upload_fileobj(bucket, u.key, u.content,
                                            ExtraArgs(u.content_type))
                        ELSE bucket
           /\ resp' = upload_file(result)
           /\ live' = IF result.success
                      THEN [k \in (DOMAIN live) \cup {u.key} |->
                              IF k = u.key
                              THEN [content |-> u.content, ctype |-> u.content_type,
                                    filename |-> u.filename]
                              ELSE live[k]]
                      ELSE live
           /\ returned' = IF result.success THEN returned \cup {u.key} ELSE returned
    /\ inflight' = inflight \ {u}
    /\ req' = [Request EXCEPT !.op = "upload", !.fields = {"file"},
                              !.file_key = Some(u.key),
                              !.filename = Some(u.filename),
                              !.content = Some(u.content),
                              !.content_type = u.content_type,
                              !.outcome = outcome, !.adapter_calls = 1,
                              !.provider_calls = 1,
                              !.stored_before = u.key \in DOMAIN bucket]
    /\ UNCHANGED <<bucketName, issued>>

\* GET /download/<file_key>/
DownloadFile(file_key, outcome) ==
    /\ resp' = download_file(file_key,
                   download_file_from_s3(bucketName, bucket, file_key, outcome))
    /\ req' = [Request EXCEPT !.op = "download", !.file_key = Some(file_key),
                              !.outcome = outcome, !.adapter_calls = 1,
                              !.provider_calls = provider_calls(bucketName, outcome),
                              !.stored_before = file_key \in DOMAIN bucket]
    /\ UNCHANGED <<bucketName, bucket, issued, inflight, live, returned>>

\* DELETE /delete/<file_key>/
DeleteFile(file_key, outcome) ==
    /\ bucket' = IF bucketName # "" /\ Applied(outcome)
                 THEN delete_object(bucket, file_key)
                 ELSE bucket
    /\ resp' = delete_file(delete_file_from_s3(bucketName, file_key, outcome))
    /\ live' = IF bucketName # "" /\ Applied(outcome)
               THEN [k \in (DOMAIN live) \ {file_key} |-> live[k]]
               ELSE live
    /\ req' = [Request EXCEPT !.op = "delete", !.file_key = Some(file_key),
                              !.outcome = outcome, !.adapter_calls = 1,
                              !.provider_calls = provider_calls(bucketName, outcome),
                              !.stored_before = file_key \in DOMAIN bucket]
    /\ UNCHANGED <<bucketName, issued, inflight, returned>>

\* GET /list/?prefix=..&max_keys=..
ListFiles(prefix_param, max_keys_param, outcome) ==
    LET prefix   == list_prefix(prefix_param)
        max_keys == list_max_keys(max_keys_param)
        called   == max_keys # None
    IN  /\ resp' = IF called
                   THEN list_files(list_files_in_s3(bucketName, bucket, prefix,
                                                    max_keys[1], outcome))
                   ELSE server_error
        /\ req' = [Request EXCEPT
                      !.op = "list", !.prefix = prefix_param,
                      !.max_keys = max_keys_param, !.outcome = outcome,
                      !.adapter_calls = IF called THEN 1 ELSE 0,
                      !.provider_calls =
                          IF called THEN provider_calls(bucketName, outcome) ELSE 0]
        /\ UNCHANGED <<bucketName, bucket, issued, inflight, live, returned>>

Next ==
    \/ \E fs \in FieldSets : UploadNoFile(fs)
    \/ \E fs \in FieldSets, o \in {"ok", "no_client"} : UploadRejected(fs, o)
    \/ \E f \in UploadedFiles, k \in TokenPool :
          UploadBegin(f.filename, f.content, f.content_type, k)
    \/ \E u \in inflight, o \in CallOutcomes : UploadFinish(u, o)
    \/ \E k \in KeyInputs, o \in ReadOutcomes : DownloadFile(k, o)
    \/ \E k \in UploadKeys, o \in WriteOutcomes : DeleteFile(k, o)
    \/ \E p \in PrefixParams, m \in MaxKeysParams, o \in ReadOutcomes :
          ListFiles(p, m, o)

Spec == Init /\ [][Next]_vars

\* ------------------------------------------------ listing a filled bucket
\* The bucket is the provider's: it may hold any number of objects when the
\* endpoints start serving it.  This specification starts from buckets of
\* several sizes, one of them larger than a list page, and lists them.

PreloadSizes == {0, 2, ListPageCap + 1}

ListPrefixParams == {None, Some(<<"x", "0", "0">>), Some(<<"z">>)}
ListMaxKeysParams == {None} \cup
    {Some(s) : s \in {<<"0">>, <<"1">>, <<"1", "0", "0", "1">>, <<"-", "1">>, <<"a">>}}

InitList ==
    /\ bucketName = "bkt"
    /\ bucket \in {Preloaded(n) : n \in PreloadSizes}
    /\ issued = {}
    /\ inflight = {}
    /\ live = NoLive
    /\ returned = {}
    /\ req = Request
    /\ resp = Response

NextList ==
    \/ \E p \in ListPrefixParams, m \in ListMaxKeysParams, o \in ReadOutcomes :
          ListFiles(p, m, o)
    \/ \E o \in WriteOutcomes : DeleteFile(PreloadedKey(0), o)

SpecList == InitList /\ [][NextList]_vars

TypeOK ==
    /\ bucketName \in BucketNames
    /\ issued \subseteq TokenPool
    /\ returned \subseteq UploadKeys
    /\ DOMAIN live \subseteq returned
    /\ resp.status \in {0, 200, 201, 400, 404, 500}

\* ------------------------------------------------------------------ claims

\* The key the last request named.
ReqKey == req.file_key[1]
IsHex(c) == \E d \in 1..16 : HexDigits[d] = c
\* k is <32 hex digits>_<filename>.
KeyForm(k, filename) ==
    /\ Len(k) = 32 + 1 + Len(filename)
    /\ \A i \in 1..32 : IsHex(k[i])
    /\ k[33] = "_"
    /\ SubSeq(k, 34, Len(k)) = filename
FailureJson(r) == r.kind = "json" /\ r.success = Some(FALSE) /\ r.error # None

\* C1, as stated (and only for downloads whose provider call is answered): a
\* download of a key that a successful upload returned, with no delete of that
\* key since, answers 200 with exactly the uploaded content and exactly the
\* uploaded content type.
C1_RoundTrip ==
    (req.op = "download" /\ req.outcome = "ok" /\ ReqKey \in DOMAIN live) =>
        /\ resp.status = 200
        /\ resp.body = Some(live[ReqKey].content)
        /\ resp.content_type = live[ReqKey].ctype

\* C1, amended: such a download answers 200 with exactly the uploaded content
\* when its provider call is answered, and the 404 failure otherwise; the
\* Content-Type is the uploaded one when the upload carried one, and the
\* provider's default binary/octet-stream when it carried none.
C1_RoundTripWhenAnswered ==
    (req.op = "download" /\ ReqKey \in DOMAIN live) =>
        IF req.outcome = "ok"
        THEN /\ resp.status = 200
             /\ resp.body = Some(live[ReqKey].content)
             /\ resp.content_type = IF live[ReqKey].ctype = ""
                                    THEN "binary/octet-stream"
                                    ELSE live[ReqKey].ctype
        ELSE resp.status = 404 /\ resp.body = None /\ FailureJson(resp)

\* C1 witness: with another upload stored beside it, an uploaded file is
\* downloaded with its content and content type.
C1_Witness ==
    /\ req.op = "download" /\ ReqKey \in DOMAIN live /\ resp.status = 200
    /\ resp.body = Some(<<104, 105>>) /\ resp.content_type = "text/plain"
    /\ Cardinality(DOMAIN live) = 2

\* C2: the key a successful upload of filename F returns is <32 hex digits>_F,
\* no earlier upload returned it and no stored object has it, so the upload
\* overwrites nothing.
C2_UniqueKeys ==
    [][(req'.op = "upload" /\ resp'.status = 201) =>
          /\ resp'.file_key # None
          /\ KeyForm(resp'.file_key[1], req'.filename[1])
          /\ resp'.original_filename = req'.filename
          /\ resp'.file_key[1] \notin returned
          /\ resp'.file_key[1] \notin DOMAIN bucket
          /\ \A u \in inflight' : u.key # resp'.file_key[1]]_vars

\* C2 witness: two uploads of the same file name have both succeeded, with
\* different keys, and both objects are stored.
C2_Witness ==
    /\ req.op = "upload" /\ resp.status = 201
    /\ \E k1, k2 \in DOMAIN live :
          /\ k1 # k2
          /\ live[k1].filename = live[k2].filename
          /\ {k1, k2} \subseteq DOMAIN bucket

\* C3: a download of a key that is not stored answers 404 with success false
\* and an error message, and carries no file.
C3_MissingKeyNotFound ==
    (req.op = "download" /\ ReqKey \notin DOMAIN bucket) =>
        /\ resp.status = 404
        /\ FailureJson(resp)
        /\ resp.body = None

\* C3 witness: a key that was uploaded and deleted again is downloaded, with
\* the provider answering.
C3_Witness ==
    /\ req.op = "download" /\ req.outcome = "ok" /\ ReqKey \in returned
    /\ ReqKey \notin DOMAIN bucket /\ resp.status = 404

\* C4: with the bucket configured and the provider answering, delete(K) answers
\* 200 with success true and K whether or not K is stored, K is not stored
\* afterwards, and when K was not stored the bucket is left as it was.
C4_DeleteIdempotent ==
    [][(req'.op = "delete" /\ bucketName # "" /\ req'.outcome = "ok") =>
          /\ resp'.status = 200
          /\ resp' = [JsonResponse(200) EXCEPT
                         !.success = Some(TRUE),
                         !.message = Some("File deleted successfully"),
                         !.file_key = req'.file_key]
          /\ req'.file_key[1] \notin DOMAIN bucket'
          /\ \A k \in DOMAIN bucket :
                k # req'.file_key[1] => k \in DOMAIN bucket' /\ bucket'[k] = bucket[k]
          /\ (req'.file_key[1] \notin DOMAIN bucket => bucket' = bucket)]_vars

\* C4 witness: a key that an upload returned is deleted when it is no longer
\* stored, and the delete succeeds.
C4_Witness ==
    /\ req.op = "delete" /\ req.outcome = "ok" /\ ~req.stored_before
    /\ ReqKey \in returned /\ resp.status = 200 /\ resp.success = Some(TRUE)

\* C5: an upload request without a field named file is answered 400 with
\* success false, calls neither the adapter nor the provider, and leaves the
\* bucket as it was.
C5_NoFileField ==
    [][(req'.op = "upload" /\ "file" \notin req'.fields) =>
          /\ resp'.status = 400
          /\ FailureJson(resp')
          /\ req'.adapter_calls = 0
          /\ req'.provider_calls = 0
          /\ bucket' = bucket
          /\ inflight' = inflight]_vars

\* C5 witness: a request carrying only another file field is answered 400 while
\* the bucket holds an uploaded object.
C5_Witness ==
    /\ req.op = "upload" /\ req.fields = {"other"} /\ resp.status = 400
    /\ returned \cap DOMAIN bucket # {}

\* The prefix and the limit of the last list request, read off its parameters.
ListP == IF req.prefix = None THEN <<>> ELSE req.prefix[1]
ListParsed == req.max_keys = None \/ ParseInt(req.max_keys[1]) # None
ListM == IF req.max_keys = None THEN 100 ELSE ParseInt(req.max_keys[1])[1]
Matching == {k \in DOMAIN bucket : IsPrefix(ListP, k)}
\* What a successful list returns, but for how many.
ListedStored ==
    /\ resp.success = Some(TRUE)
    /\ resp.count = Some(Len(resp.files))
    /\ Cardinality({resp.files[i].key : i \in 1..Len(resp.files)}) = Len(resp.files)
    /\ \A i \in 1..Len(resp.files) :
          /\ resp.files[i].key \in Matching
          /\ resp.files[i].size = Len(bucket[resp.files[i].key].content)
ListedNothing ==
    resp.status = 200 /\ resp.success = Some(TRUE) /\ resp.files = <<>>
                      /\ resp.count = Some(0)

\* C6, as stated (the empty answer only for M >= 0): a successful list returns
\* distinct summaries of stored objects whose keys start with P, count of them
\* min(M, number of stored keys starting with P); when no stored key starts with
\* P the answer is 200 with no files and count 0; without parameters P is empty
\* and M is 100.
C6_List ==
    (req.op = "list") =>
        /\ resp.status = 200 =>
              ListedStored /\ Len(resp.files) = Min(ListM, Cardinality(Matching))
        /\ (req.outcome = "ok" /\ ListParsed /\ ListM >= 0 /\ Matching = {})
              => ListedNothing

\* C6, amended: the count is min(M, 1000, number of stored keys starting with P),
\* one page of the provider's listing; and the empty answer is given when the
\* provider answers and M is not negative.
C6_ListOnePage ==
    (req.op = "list") =>
        /\ resp.status = 200 =>
              /\ ListedStored
              /\ Len(resp.files) = Min(Min(ListM, 1000), Cardinality(Matching))
        /\ (req.outcome = "ok" /\ ListParsed /\ ListM >= 0 /\ Matching = {})
              => ListedNothing

\* C6 witness: a bucket of more than a page is listed with a prefix that 16 of
\* its keys have, without max_keys, and all 16 are returned.
C6_Witness ==
    /\ req.op = "list" /\ resp.status = 200
    /\ req.prefix = Some(<<"x", "0", "0">>) /\ req.max_keys = None
    /\ Cardinality(DOMAIN bucket) > 1000
    /\ resp.count = Some(16)

\* C7: a list request whose max_keys is no integer is answered with a 4xx status
\* and a message, and the adapter is not called.
C7_MalformedMaxKeys ==
    (req.op = "list" /\ ~ListParsed) =>
        /\ resp.status \in 400..499
        /\ resp.error # None
        /\ req.adapter_calls = 0

\* C8: a failure of the storage adapter yields 404 only for a download whose key
\* is not stored; every other failure yields a 5xx status with success false
\* and the error text, on every endpoint.
C8_FailureStatus ==
    (req.adapter_calls = 1 /\ resp.status >= 400) =>
        IF /\ req.op = "download" /\ bucketName # "" /\ req.outcome = "ok"
           /\ ReqKey \notin DOMAIN bucket
        THEN resp.status = 404
        ELSE resp.status \in 500..599 /\ FailureJson(resp)

\* C9: the download of a key an upload of F returned names F as the attachment
\* file name, also when F contains the separator; a key without a separator is
\* the file name as it is.
C9_FilenameRoundTrip ==
    (req.op = "download" /\ resp.status = 200) =>
        /\ resp.disposition # None
        /\ ReqKey \in DOMAIN live => resp.disposition = Some(live[ReqKey].filename)
        /\ (\A i \in 1..Len(ReqKey) : ReqKey[i] # "_") => resp.disposition = Some(ReqKey)

\* C9 witness: a file whose name contains the separator is downloaded.
C9_Witness ==
    /\ req.op = "download" /\ resp.status = 200 /\ ReqKey \in DOMAIN live
    /\ live[ReqKey].filename = <<"a", "_", "b">>
    /\ resp.disposition = Some(<<"a", "_", "b">>)

\* What an upload may do to the bucket: add its one new key.
AddsOneKey ==
    /\ req'.file_key[1] \notin DOMAIN bucket
    /\ DOMAIN bucket' = DOMAIN bucket \cup {req'.file_key[1]}
    /\ \A k \in DOMAIN bucket : bucket'[k] = bucket[k]
\* What delete(K) may do to the bucket: remove K.
RemovesAtMostKey ==
    /\ DOMAIN bucket \ {req'.file_key[1]} \subseteq DOMAIN bucket'
    /\ DOMAIN bucket' \subseteq DOMAIN bucket
    /\ \A k \in DOMAIN bucket' : bucket'[k] = bucket[k]

\* C10, as stated: a successful upload adds exactly one new key and changes no
\* stored object; delete(K) removes at most K and changes no other object;
\* download and list change nothing; an operation that answers with a failure
\* leaves the bucket as it was.
C10_Frame ==
    [][/\ (req'.op = "upload" /\ resp'.status = 201) => AddsOneKey
       /\ req'.op = "delete" => RemovesAtMostKey
       /\ req'.op \in {"download", "list", "upload_begin"} => bucket' = bucket
       /\ resp'.status >= 400 => bucket' = bucket]_vars

\* C10, amended: a failure leaves the bucket as it was unless the provider
\* applied the call and its answer was lost; the bucket then changes as it
\* does when the operation succeeds (the upload's one new key is added, K is
\* removed).
C10_FrameButLostResponse ==
    [][/\ (req'.op = "upload" /\ resp'.status = 201) => AddsOneKey
       /\ req'.op = "delete" => RemovesAtMostKey
       /\ req'.op \in {"download", "list", "upload_begin"} => bucket' = bucket
       /\ (resp'.status >= 400 /\ req'.outcome # "lost_response") => bucket' = bucket
       /\ (resp'.status >= 400 /\ req'.outcome = "lost_response") =>
             IF req'.op = "upload" THEN AddsOneKey ELSE RemovesAtMostKey]_vars

\* C10 witness: with two uploaded objects stored, a delete of one of them has
\* removed it and the other is still stored as uploaded.
C10_Witness ==
    /\ req.op = "delete" /\ resp.status = 200 /\ req.stored_before
    /\ \E k \in DOMAIN live : k \in DOMAIN bucket /\ bucket[k].content = live[k].content
    /\ Cardinality(returned) = 2

====
